---- MODULE Spec2Model ----
(***************************************************************************)
(* Model of the Sparta provisioning workflow (provision.go): Provision's   *)
(* step loop, role verification, build/package, the concurrent upload      *)
(* step, template synthesis, stack convergence and rollback.               *)
(***************************************************************************)
EXTENDS Integers, Sequences, FiniteSets, TLC

\* ------------------------------------------------------------------ bounds
MaxLambdas == 2

\* --------------------------------------------------------------- constants
\* An error is the sequence of the fragments of its message; nil is the empty one.
NoErr == <<>>
Err(msg) == <<msg>>
Running == <<"running">>
NilStep == "nil"
NilDef == "nil"
Names == {"r1", "r2"}
LambdaIds == <<"Lambda1", "Lambda2", "Lambda3", "Lambda4">>
serviceName == "svc"

RoleType == "AWS::IAM::Role"
LambdaType == "AWS::Lambda::Function"
ApiType == "AWS::ApiGateway::RestApi"
SiteType == "AWS::S3::Bucket"
CapabilityIAM == "CAPABILITY_IAM"

OutputSpartaHomeKey == "SpartaHome"
OutputSpartaVersionKey == "SpartaVersion"
SpartaHomeValue == "http://gosparta.io"
SpartaVersionValue == "SpartaVersion"

\* A function descriptor: RoleName ("" when unset) and RoleDefinition (its
\* logical name, NilDef when the pointer is nil).
LambdaAWSInfo == [RoleName : {""} \cup Names, RoleDefinition : {NilDef} \cup Names]

SeqsUpTo(S, n) == UNION {[1..k -> S] : k \in 0..n}

\* The code treats all role names alike, so descriptor lists are taken up to
\* the renaming of the two names: the first descriptor names "r1" first.
Canonical(list) ==
    \/ list = <<>>
    \/ /\ list[1].RoleName \in {"", "r1"}
       /\ list[1].RoleName = "" => list[1].RoleDefinition \in {NilDef, "r1"}

Units == {"primary", "site"}

\* What a unit's call of uploadLocalFileToS3 did at the remote service: the
\* answer of the lifecycle lookup it made ("none": no lookup) and its calls.
NoLookup == [answer |-> "none", calls |-> {}]

VARIABLES
    \* Provision's arguments
    noop, lambdaAWSInfos, api, site, templateWriter,
    \* workflowContext
    cfTemplate, lambdaIAMRoleNameMap, s3LambdaZipKey, s3SiteLambdaZipKey,
    rollbackFunctions,
    \* Provision's step loop
    pc, stepLog, stepErr, result, rollbackCount,
    \* verifyIAMRoles
    idx, lookups,
    \* local file system
    localFiles, packagePath, exeRemoveAttempted,
    \* createUploadStep
    uploadErrors, upc, uerr, ukey, usnap, upath, ulookup,
    \* remote services
    issued, bucket, deleted,
    \* rollback
    rbPending, rbExecuted, rbFailed,
    \* ensureCloudFormationStack / convergeStackState
    synth, sinkWritten, templateKey, describeAnswer, exists, capabilities,
    stackReq, sleepDuration, lastStatus, convOutcome, eventsAnswer,
    \* the stack at the remote service
    remoteStatus

inputVars == <<noop, lambdaAWSInfos, api, site, templateWriter>>
ctxVars == <<cfTemplate, lambdaIAMRoleNameMap, s3LambdaZipKey, s3SiteLambdaZipKey,
             rollbackFunctions>>
loopVars == <<pc, stepErr, result, rollbackCount, rbPending>>
roleVars == <<idx, lookups>>
fileVars == <<localFiles, packagePath, exeRemoveAttempted>>
uploadVars == <<uploadErrors, upc, uerr, ukey, usnap, upath, ulookup>>
remoteVars == <<issued, bucket, deleted>>
rbVars == <<rbExecuted, rbFailed>>
finalVars == <<synth, sinkWritten, templateKey, describeAnswer, exists,
               capabilities, stackReq, sleepDuration, lastStatus, convOutcome,
               eventsAnswer, remoteStatus>>

vars == <<inputVars, ctxVars, loopVars, stepLog, roleVars, fileVars, uploadVars,
          remoteVars, rbVars, finalVars>>

\* gocf.NewTemplate(): no resources, no outputs.
NewTemplate == [Resources |-> <<>>, Outputs |-> <<>>]

\* Template.AddResource(name, resource): sets (or replaces) the entry.
AddResource(t, name, type) ==
    [t EXCEPT !.Resources = (name :> type) @@ t.Resources]

Init ==
    /\ noop \in BOOLEAN
    /\ lambdaAWSInfos \in {l \in SeqsUpTo(LambdaAWSInfo, MaxLambdas) : Canonical(l)}
    /\ api \in BOOLEAN
    /\ site \in BOOLEAN
    /\ templateWriter \in BOOLEAN
    /\ cfTemplate = NewTemplate
    /\ lambdaIAMRoleNameMap = <<>>
    /\ s3LambdaZipKey = ""
    /\ s3SiteLambdaZipKey = ""
    /\ rollbackFunctions = <<>>
    /\ pc = "start"
    /\ stepLog = <<>>
    /\ stepErr = NoErr
    /\ result = Running
    /\ rollbackCount = 0
    /\ idx = 0
    /\ lookups = [n \in Names |-> 0]
    /\ localFiles = {}
    /\ packagePath = <<>>
    /\ exeRemoveAttempted = FALSE
    /\ uploadErrors = <<>>
    /\ upc = [u \in Units |-> "idle"]
    /\ uerr = [u \in Units |-> NoErr]
    /\ ukey = [u \in Units |-> ""]
    /\ usnap = [u \in Units |-> <<>>]
    /\ ulookup = [u \in Units |-> NoLookup]
    /\ upath = [u \in Units |-> <<>>]
    /\ issued = {}
    /\ bucket = {}
    /\ deleted = {}
    /\ rbPending = {}
    /\ rbExecuted = {}
    /\ rbFailed = {}
    /\ synth = "none"
    /\ sinkWritten = FALSE
    /\ templateKey = ""
    /\ describeAnswer = "none"
    /\ exists = FALSE
    /\ capabilities = <<>>
    /\ stackReq = <<>>
    /\ sleepDuration = 0
    /\ lastStatus = "none"
    /\ convOutcome = "none"
    /\ eventsAnswer = "none"
    /\ remoteStatus = "none"

\* ------------------------------------------------------- Provision's loop

\* The chain of steps: what each step returns as its next step.
VerifyNext == "package"
\* (mutant) the package step hands over to the final step, skipping the upload
PackageNext_SkipUpload == "final"
PackageNext == "upload"
UploadNext == "final"
FinalNext == NilStep

\* (mutant) an error is returned without rollback() being invoked
StepReturn_NoRollback(next, err) ==
    IF err # NoErr
    THEN /\ pc' = "done"
         /\ stepErr' = err
         /\ result' = err
         /\ UNCHANGED <<rollbackCount, rbPending>>
    ELSE IF next = NilStep
    THEN /\ pc' = "done"
         /\ result' = NoErr
         /\ UNCHANGED <<stepErr, rollbackCount, rbPending>>
    ELSE /\ pc' = next
         /\ UNCHANGED <<stepErr, rollbackCount, rbPending, result>>

\* (mutant) rollback() is invoked at the end of a successful run as well
StepReturn_RollbackOnSuccess(next, err) ==
    IF err # NoErr \/ next = NilStep
    THEN /\ pc' = "rollback"
         /\ stepErr' = err
         /\ rollbackCount' = rollbackCount + 1
         /\ rbPending' = 1..Len(rollbackFunctions)
         /\ UNCHANGED result
    ELSE /\ pc' = next
         /\ UNCHANGED <<stepErr, rollbackCount, rbPending, result>>

\* Provision's loop body after `next, err := step(ctx)`: on an error rollback()
\* is invoked and err returned; a nil next ends the run with nil; otherwise the
\* loop continues with next.
StepReturn(next, err) ==
    IF err # NoErr
    THEN /\ pc' = "rollback"
         /\ stepErr' = err
         /\ rollbackCount' = rollbackCount + 1
         /\ rbPending' = 1..Len(rollbackFunctions)
         /\ UNCHANGED result
    ELSE IF next = NilStep
    THEN /\ pc' = "done"
         /\ result' = NoErr
         /\ UNCHANGED <<stepErr, rollbackCount, rbPending>>
    ELSE /\ pc' = next
         /\ UNCHANGED <<stepErr, rollbackCount, rbPending, result>>

\* (mutant) the empty list is not refused
EmptyList_Never(infos) == FALSE

\* The test `len(lambdaAWSInfos) <= 0`.
EmptyList(infos) == Len(infos) <= 0

\* Provision up to the loop: the context is built, and an empty descriptor
\* list is refused before the first step.
ProvisionStart ==
    /\ pc = "start"
    /\ IF EmptyList(lambdaAWSInfos)
       THEN /\ pc' = "done"
            /\ result' = Err("No lambda functions provided to Sparta.Provision()")
       ELSE /\ pc' = "verify"
            /\ UNCHANGED result
    /\ UNCHANGED <<inputVars, ctxVars, stepLog, stepErr, rollbackCount, rbPending,
                   roleVars, fileVars, uploadVars, remoteVars, rbVars, finalVars>>

\* The step has not returned: control stays inside it, at position p.
Continue(p) ==
    /\ pc' = p
    /\ UNCHANGED <<stepErr, result, rollbackCount, rbPending>>

\* ---------------------------------------------------------- verifyIAMRoles

\* gocf.String(*resp.Role.Arn): the literal Arn of a pre-existing role.
LiteralArn(roleName) == [kind |-> "literal", name |-> roleName]
\* gocf.GetAtt(logicalName, "Arn"): a reference to a role of the template.
GetAttArn(logicalName) == [kind |-> "getatt", name |-> logicalName]

\* Entry of the step: the role map is made anew.
VerifyEnter ==
    /\ pc = "verify" /\ idx = 0
    /\ stepLog' = Append(stepLog, "verify")
    /\ lambdaIAMRoleNameMap' = <<>>
    /\ idx' = 1
    /\ Continue("verify")
    /\ UNCHANGED <<inputVars, cfTemplate, s3LambdaZipKey, s3SiteLambdaZipKey,
                   rollbackFunctions, lookups, fileVars, uploadVars, remoteVars,
                   rbVars, finalVars>>

\* (mutant) the map is not consulted
Resolved_Never(key) == FALSE

\* (mutant) every key counts as already in the map
Resolved_Always(key) == TRUE

\* Whether the role key is already in the map (the `exists` of the lookups).
Resolved(key) == key \in DOMAIN lambdaIAMRoleNameMap

\* One iteration of the loop over ctx.lambdaAWSInfos.
VerifyEach ==
    /\ pc = "verify" /\ idx \in 1..Len(lambdaAWSInfos)
    /\ LET eachLambda == lambdaAWSInfos[idx] IN
       \/ \* both RoleName and RoleDefinition: the step returns an error
          /\ eachLambda.RoleName # "" /\ eachLambda.RoleDefinition # NilDef
          /\ StepReturn(NilStep, Err("Both RoleName and RoleDefinition defined for lambda"))
          /\ UNCHANGED <<cfTemplate, lambdaIAMRoleNameMap, idx, lookups, issued>>
       \/ \* a role name already resolved: no call
          /\ eachLambda.RoleName # "" /\ eachLambda.RoleDefinition = NilDef
          /\ Resolved(eachLambda.RoleName)
          /\ idx' = idx + 1
          /\ Continue("verify")
          /\ UNCHANGED <<cfTemplate, lambdaIAMRoleNameMap, lookups, issued>>
       \/ \* a role name not yet resolved: svc.GetRole succeeds
          /\ eachLambda.RoleName # "" /\ eachLambda.RoleDefinition = NilDef
          /\ ~Resolved(eachLambda.RoleName)
          /\ lookups' = [lookups EXCEPT ![eachLambda.RoleName] = @ + 1]
          /\ issued' = issued \cup {"GetRole"}
          /\ lambdaIAMRoleNameMap' =
                (eachLambda.RoleName :> LiteralArn(eachLambda.RoleName))
                    @@ lambdaIAMRoleNameMap
          /\ idx' = idx + 1
          /\ Continue("verify")
          /\ UNCHANGED cfTemplate
       \/ \* a role name not yet resolved: svc.GetRole fails
          /\ eachLambda.RoleName # "" /\ eachLambda.RoleDefinition = NilDef
          /\ ~Resolved(eachLambda.RoleName)
          /\ lookups' = [lookups EXCEPT ![eachLambda.RoleName] = @ + 1]
          /\ issued' = issued \cup {"GetRole"}
          /\ StepReturn(NilStep, Err("GetRole failed"))
          /\ UNCHANGED <<cfTemplate, lambdaIAMRoleNameMap, idx>>
       \/ \* a role definition: added to the template unless its logical
          \* name is already a key of the map
          /\ eachLambda.RoleName = "" /\ eachLambda.RoleDefinition # NilDef
          /\ LET logicalName == eachLambda.RoleDefinition IN
             IF Resolved(logicalName)
             THEN UNCHANGED <<cfTemplate, lambdaIAMRoleNameMap>>
             ELSE /\ cfTemplate' = AddResource(cfTemplate, logicalName, RoleType)
                  /\ lambdaIAMRoleNameMap' =
                        (logicalName :> GetAttArn(logicalName)) @@ lambdaIAMRoleNameMap
          /\ idx' = idx + 1
          /\ Continue("verify")
          /\ UNCHANGED <<lookups, issued>>
       \/ \* neither: eachLambda.RoleDefinition is nil and is dereferenced
          /\ eachLambda.RoleName = "" /\ eachLambda.RoleDefinition = NilDef
          /\ pc' = "panic"
          /\ UNCHANGED <<stepErr, result, rollbackCount, rbPending, cfTemplate,
                         lambdaIAMRoleNameMap, idx, lookups, issued>>
    /\ UNCHANGED <<inputVars, s3LambdaZipKey, s3SiteLambdaZipKey, rollbackFunctions,
                   stepLog, fileVars, uploadVars, bucket, deleted, rbVars, finalVars>>

\* After the loop: the step returns the package step.
VerifyReturn ==
    /\ pc = "verify" /\ idx > Len(lambdaAWSInfos)
    /\ StepReturn(VerifyNext, NoErr)
    /\ UNCHANGED <<inputVars, ctxVars, stepLog, roleVars, fileVars, uploadVars,
                   remoteVars, rbVars, finalVars>>

\* ------------------------------------------------------- createPackageStep

ExecutableOutput == <<"cwd", "svc.lambda.amd64">>
PackageTmpFile == <<"cwd", "svc-tmp">>
SiteTmpFile == <<"cwd", "svc-S3Site-tmp">>

PackageOutcomes == {"compileFail", "statFail", "tmpFail", "zipFail", "ok"}

\* The error the package step returns for an outcome.
PackageErr(o) ==
    CASE o = "compileFail" -> Err("go build failed")
      [] o = "statFail" -> Err("Failed to stat build output")
      [] o = "tmpFail" -> Err("Failed to create temporary file")
      [] o = "zipFail" -> Err("Failed to create ZIP entry")
      [] OTHER -> NoErr

\* Whether the deferred os.Remove(executableOutput) is in force: it is
\* registered only after cmd.Run() succeeded.
RemoveDeferred(o) == o # "compileFail"

\* (mutant) the step registers a compensation for its archive
PackageStep_RegistersRollback ==
    /\ pc = "package"
    /\ stepLog' = Append(stepLog, "package")
    /\ \E o \in PackageOutcomes :
         LET built == IF o \in {"compileFail", "statFail"} THEN {} ELSE {ExecutableOutput}
             tmp == IF o \in {"zipFail", "ok"} THEN {PackageTmpFile} ELSE {}
         IN /\ exeRemoveAttempted' = RemoveDeferred(o)
            /\ localFiles' = IF RemoveDeferred(o)
                             THEN (localFiles \cup built \cup tmp) \ {ExecutableOutput}
                             ELSE localFiles \cup built \cup tmp
            /\ packagePath' = IF o = "ok" THEN PackageTmpFile ELSE packagePath
            /\ StepReturn(IF o = "ok" THEN PackageNext ELSE NilStep, PackageErr(o))
    /\ rollbackFunctions' =
         Append(rollbackFunctions, [s3Key |-> "svc-tmp", noop |-> noop])
    /\ UNCHANGED <<inputVars, cfTemplate, lambdaIAMRoleNameMap, s3LambdaZipKey,
                   s3SiteLambdaZipKey, roleVars, uploadVars, remoteVars, rbVars,
                   finalVars>>

\* The whole step: build, stat, temporary archive, archive entries, and the
\* deferred removal of the executable.
PackageStep ==
    /\ pc = "package"
    /\ stepLog' = Append(stepLog, "package")
    /\ \E o \in PackageOutcomes :
         LET built == IF o \in {"compileFail", "statFail"} THEN {} ELSE {ExecutableOutput}
             tmp == IF o \in {"zipFail", "ok"} THEN {PackageTmpFile} ELSE {}
         IN /\ exeRemoveAttempted' = RemoveDeferred(o)
            /\ localFiles' = IF RemoveDeferred(o)
                             THEN (localFiles \cup built \cup tmp) \ {ExecutableOutput}
                             ELSE localFiles \cup built \cup tmp
            /\ packagePath' = IF o = "ok" THEN PackageTmpFile ELSE packagePath
            /\ StepReturn(IF o = "ok" THEN PackageNext ELSE NilStep, PackageErr(o))
    /\ UNCHANGED <<inputVars, ctxVars, roleVars, uploadVars, remoteVars, rbVars,
                   finalVars>>

\* ------------------------------------------------------- uploadLocalFileToS3

\* filepath.Base: the last element of a path.
Base(path) == path[Len(path)]

LifecycleAnswers == {"rules", "NoSuchLifecycleConfiguration", "error"}

\* (mutant) an absent lifecycle configuration fails like any other error
ensureExpirationPolicy_AbsentFails(isNoop, answer) ==
    IF isNoop
    THEN [err |-> NoErr, calls |-> {}]
    ELSE [err |-> IF answer \in {"error", "NoSuchLifecycleConfiguration"}
                  THEN <<"Failed to fetch S3 Bucket Policy: ", "lifecycle lookup failed">>
                  ELSE NoErr,
          calls |-> {"GetBucketLifecycleConfiguration"}]

\* ensureExpirationPolicy: no call in no-op mode; an answer other than
\* NoSuchLifecycleConfiguration that is an error fails.
ensureExpirationPolicy(isNoop, answer) ==
    IF isNoop
    THEN [err |-> NoErr, calls |-> {}]
    ELSE [err |-> IF answer = "error"
                  THEN <<"Failed to fetch S3 Bucket Policy: ", "lifecycle lookup failed">>
                  ELSE NoErr,
          calls |-> {"GetBucketLifecycleConfiguration"}]

\* uploadLocalFileToS3(packagePath, ..., noop, ...) for unit u: the key and the
\* error it returns, the remote calls it makes, whether the object is stored
\* and whether the deferred os.Remove(packagePath) ran.
uploadLocalFileToS3(u, path, isNoop, answer, openOk, xferOk) ==
    LET pol == ensureExpirationPolicy(isNoop, answer) IN
    IF pol.err # NoErr
    THEN [key |-> "", err |-> <<u, "Failed to ensure bucket policies: ">> \o pol.err,
          calls |-> pol.calls, stored |-> FALSE, removed |-> FALSE]
    ELSE IF ~openOk
    THEN [key |-> "", err |-> <<u, "Failed to open local archive for S3 upload: ">>,
          calls |-> pol.calls, stored |-> FALSE, removed |-> FALSE]
    ELSE IF isNoop
    THEN [key |-> Base(path), err |-> NoErr,
          calls |-> pol.calls, stored |-> FALSE, removed |-> TRUE]
    ELSE IF ~xferOk
    THEN [key |-> "", err |-> <<u, "upload failed">>,
          calls |-> pol.calls \cup {"Upload"}, stored |-> FALSE, removed |-> TRUE]
    ELSE [key |-> Base(path), err |-> NoErr,
          calls |-> pol.calls \cup {"Upload"}, stored |-> TRUE, removed |-> TRUE]

\* createS3RollbackFunc: the compensation captures the key and the run mode.
createS3RollbackFunc(s3Key, isNoop) == [s3Key |-> s3Key, noop |-> isNoop]

\* (mutant) the function is not added to the list
registerRollback_Dropped(list, userFunction) == list

\* registerRollback applied to the value of ctx.rollbackFunctions that was read.
registerRollback(list, userFunction) ==
    Append(IF Len(list) <= 0 THEN <<>> ELSE list, userFunction)

\* -------------------------------------------------------- createUploadStep

\* Entry of the step: the goroutine of the primary archive is started, and
\* that of the site archive iff a site is defined.
UploadEnter ==
    /\ pc = "upload" /\ upc["primary"] = "idle"
    /\ stepLog' = Append(stepLog, "upload")
    /\ uploadErrors' = <<>>
    /\ upc' = [u \in Units |->
                 IF u = "primary" THEN "upload" ELSE IF site THEN "build" ELSE "absent"]
    /\ upath' = [upath EXCEPT !["primary"] = packagePath]
    /\ Continue("upload")
    /\ UNCHANGED <<inputVars, ctxVars, roleVars, fileVars, uerr, ukey, usnap, ulookup,
                   remoteVars, rbVars, finalVars>>

SiteBuildOutcomes == {"tmpFail", "absFail", "zipFail", "ok"}

\* The site goroutine up to the upload: temporary file, filepath.Abs, addToZip.
\* On a failure the error is kept for the append and the goroutine returns.
SiteBuild ==
    /\ pc = "upload" /\ upc["site"] = "build"
    /\ \E o \in SiteBuildOutcomes :
         /\ localFiles' = IF o = "tmpFail" THEN localFiles
                          ELSE localFiles \cup {SiteTmpFile}
         /\ uerr' = [uerr EXCEPT !["site"] =
                CASE o = "tmpFail" ->
                       <<"site", "Failed to create temporary S3 site archive file">>
                  [] o = "absFail" -> <<"site", "filepath.Abs failed">>
                  [] o = "zipFail" -> <<"site", "addToZip failed">>
                  [] OTHER -> NoErr]
         /\ upath' = [upath EXCEPT !["site"] = IF o = "ok" THEN SiteTmpFile ELSE @]
         /\ upc' = [upc EXCEPT !["site"] = IF o = "ok" THEN "upload" ELSE "regRead"]
    /\ Continue("upload")
    /\ UNCHANGED <<inputVars, ctxVars, stepLog, roleVars, packagePath,
                   exeRemoveAttempted, uploadErrors, ukey, usnap, ulookup, remoteVars, rbVars,
                   finalVars>>

\* A goroutine's call of uploadLocalFileToS3 and the store of the key it
\* returns into its own field of the context.
UnitUpload(u) ==
    /\ pc = "upload" /\ upc[u] = "upload"
    /\ \E answer \in LifecycleAnswers, openOk \in BOOLEAN, xferOk \in BOOLEAN :
         LET r == uploadLocalFileToS3(u, upath[u], noop, answer, openOk, xferOk) IN
         /\ issued' = issued \cup r.calls
         /\ bucket' = IF r.stored THEN bucket \cup {r.key} ELSE bucket
         /\ localFiles' = IF r.removed THEN localFiles \ {upath[u]} ELSE localFiles
         /\ ukey' = [ukey EXCEPT ![u] = r.key]
         /\ uerr' = [uerr EXCEPT ![u] = r.err]
         /\ ulookup' = [ulookup EXCEPT ![u] =
                [answer |-> IF "GetBucketLifecycleConfiguration" \in r.calls
                            THEN answer ELSE "none",
                 calls |-> r.calls]]
         /\ IF u = "primary"
            THEN s3LambdaZipKey' = r.key /\ UNCHANGED s3SiteLambdaZipKey
            ELSE s3SiteLambdaZipKey' = r.key /\ UNCHANGED s3LambdaZipKey
    /\ upc' = [upc EXCEPT ![u] = "regRead"]
    /\ Continue("upload")
    /\ UNCHANGED <<inputVars, cfTemplate, lambdaIAMRoleNameMap, rollbackFunctions,
                   stepLog, roleVars, packagePath, exeRemoveAttempted, uploadErrors,
                   usnap, upath, deleted, rbVars, finalVars>>

\* The appends of the goroutines are not synchronised: each reads the shared
\* slice (the error list after a failure, the rollback list after a success)
\* and later stores the slice it built from what it read.
UnitRead(u) ==
    /\ pc = "upload" /\ upc[u] = "regRead"
    /\ usnap' = [usnap EXCEPT ![u] =
                   IF uerr[u] # NoErr THEN uploadErrors ELSE rollbackFunctions]
    /\ upc' = [upc EXCEPT ![u] = "regWrite"]
    /\ Continue("upload")
    /\ UNCHANGED <<inputVars, ctxVars, stepLog, roleVars, fileVars, uploadErrors,
                   uerr, ukey, upath, ulookup, remoteVars, rbVars, finalVars>>

UnitWrite(u) ==
    /\ pc = "upload" /\ upc[u] = "regWrite"
    /\ IF uerr[u] # NoErr
       THEN /\ uploadErrors' = Append(usnap[u], uerr[u])
            /\ UNCHANGED rollbackFunctions
       ELSE /\ rollbackFunctions' =
                 registerRollback(usnap[u], createS3RollbackFunc(ukey[u], noop))
            /\ UNCHANGED uploadErrors
    /\ upc' = [upc EXCEPT ![u] = "done"]
    /\ usnap' = [usnap EXCEPT ![u] = <<>>]
    /\ ulookup' = [ulookup EXCEPT ![u] = NoLookup]
    /\ Continue("upload")
    /\ UNCHANGED <<inputVars, cfTemplate, lambdaIAMRoleNameMap, s3LambdaZipKey,
                   s3SiteLambdaZipKey, stepLog, roleVars, fileVars, uerr, ukey,
                   upath, remoteVars, rbVars, finalVars>>

\* The text of the error the step returns from the accumulated errors: the
\* loop returns in its first iteration.
UploadErrorText(errs) ==
    LET errorText == <<"Encountered multiple errors during upload:">>
    IN errorText \o (errorText \o errs[1])

\* (mutant) the step waits for the primary goroutine only
UploadJoin_PrimaryOnly ==
    /\ pc = "upload" /\ upc["primary"] = "done"
    /\ IF Len(uploadErrors) > 0
       THEN StepReturn(NilStep, UploadErrorText(uploadErrors))
       ELSE StepReturn(UploadNext, NoErr)
    /\ upc' = [u \in Units |-> "joined"]
    /\ UNCHANGED <<inputVars, ctxVars, stepLog, roleVars, fileVars, uploadErrors,
                   uerr, ukey, usnap, upath, ulookup, remoteVars, rbVars, finalVars>>

\* wg.Wait() and the rest of the step.
UploadJoin ==
    /\ pc = "upload" /\ \A u \in Units : upc[u] \in {"done", "absent"}
    /\ IF Len(uploadErrors) > 0
       THEN StepReturn(NilStep, UploadErrorText(uploadErrors))
       ELSE StepReturn(UploadNext, NoErr)
    /\ upc' = [u \in Units |-> "joined"]
    /\ UNCHANGED <<inputVars, ctxVars, stepLog, roleVars, fileVars, uploadErrors,
                   uerr, ukey, usnap, upath, ulookup, remoteVars, rbVars, finalVars>>

\* ----------------------------------------------------------------- rollback

\* One compensation of rollback(), each in its own goroutine: in live mode
\* it issues DeleteObject for the key it captured; its error is only logged.
RollbackRun(i) ==
    /\ pc = "rollback" /\ i \in rbPending
    /\ LET cleanupFunc == rollbackFunctions[i] IN
       IF ~cleanupFunc.noop
       THEN /\ issued' = issued \cup {"DeleteObject"}
            /\ deleted' = deleted \cup {cleanupFunc.s3Key}
            /\ \E ok \in BOOLEAN :
                 IF ok
                 THEN bucket' = bucket \ {cleanupFunc.s3Key} /\ UNCHANGED rbFailed
                 ELSE rbFailed' = rbFailed \cup {i} /\ UNCHANGED bucket
       ELSE UNCHANGED <<issued, deleted, bucket, rbFailed>>
    /\ rbExecuted' = rbExecuted \cup {i}
    /\ rbPending' = rbPending \ {i}
    /\ UNCHANGED <<inputVars, ctxVars, pc, stepErr, result, rollbackCount, stepLog,
                   roleVars, fileVars, uploadVars, finalVars>>

\* (mutant) rollback() returns without waiting for its goroutines
RollbackJoin_NoWait ==
    /\ pc = "rollback"
    /\ pc' = "done"
    /\ result' = stepErr
    /\ UNCHANGED <<inputVars, ctxVars, stepErr, rollbackCount, rbPending, stepLog,
                   roleVars, fileVars, uploadVars, remoteVars, rbVars, finalVars>>

\* wg.Wait() of rollback() is over: Provision returns the step's error.
RollbackJoin ==
    /\ pc = "rollback" /\ rbPending = {}
    /\ pc' = "done"
    /\ result' = stepErr
    /\ UNCHANGED <<inputVars, ctxVars, stepErr, rollbackCount, rbPending, stepLog,
                   roleVars, fileVars, uploadVars, remoteVars, rbVars, finalVars>>

\* ---------------------------------------------------------- stack helpers

StackStatuses ==
    {"CREATE_IN_PROGRESS", "CREATE_FAILED", "CREATE_COMPLETE",
     "ROLLBACK_IN_PROGRESS", "ROLLBACK_FAILED", "ROLLBACK_COMPLETE",
     "DELETE_IN_PROGRESS", "DELETE_FAILED", "DELETE_COMPLETE",
     "UPDATE_IN_PROGRESS", "UPDATE_COMPLETE_CLEANUP_IN_PROGRESS", "UPDATE_COMPLETE",
     "UPDATE_ROLLBACK_IN_PROGRESS", "UPDATE_ROLLBACK_FAILED",
     "UPDATE_ROLLBACK_COMPLETE_CLEANUP_IN_PROGRESS", "UPDATE_ROLLBACK_COMPLETE",
     "REVIEW_IN_PROGRESS"}

\* (mutant) DELETE_COMPLETE is left out of the failure case
StackStatusClass_NoDeleteComplete(status) ==
    CASE status \in {"CREATE_COMPLETE", "UPDATE_COMPLETE"} -> "success"
      [] status \in {"CREATE_FAILED", "DELETE_FAILED",
                     "ROLLBACK_FAILED", "ROLLBACK_COMPLETE"} -> "failure"
      [] OTHER -> "continue"

\* The switch on *stackInfo.StackStatus of the poll loop.
StackStatusClass(status) ==
    CASE status \in {"CREATE_COMPLETE", "UPDATE_COMPLETE"} -> "success"
      [] status \in {"DELETE_COMPLETE", "CREATE_FAILED", "DELETE_FAILED",
                     "ROLLBACK_FAILED", "ROLLBACK_COMPLETE"} -> "failure"
      [] OTHER -> "continue"

\* (mutant) every error of the describe counts as non-existence
stackExists_AnyErrorIsAbsent(answer) ==
    CASE answer = "found" -> [exists |-> TRUE, err |-> NoErr]
      [] OTHER -> [exists |-> FALSE, err |-> NoErr]

\* stackExists on the answer of DescribeStacks.
stackExists(answer) ==
    CASE answer = "found" -> [exists |-> TRUE, err |-> NoErr]
      [] answer = "does not exist" -> [exists |-> FALSE, err |-> NoErr]
      [] OTHER -> [exists |-> FALSE, err |-> Err("DescribeStacks failed")]

\* (mutant) the search for an earlier entry finds nothing
CapabilityFound_Never(caps) == FALSE

\* Whether CAPABILITY_IAM is already among the capabilities (the inner loop).
CapabilityFound(caps) == \E k \in 1..Len(caps) : caps[k] = CapabilityIAM

\* stackCapabilities over the resource types in the order the map is visited.
RECURSIVE stackCapabilitiesFrom(_, _)
stackCapabilitiesFrom(types, caps) ==
    IF types = <<>> THEN caps
    ELSE stackCapabilitiesFrom(Tail(types),
            IF Head(types) = RoleType /\ ~CapabilityFound(caps)
            THEN Append(caps, CapabilityIAM)
            ELSE caps)

stackCapabilities(types) == stackCapabilitiesFrom(types, <<>>)

\* Every order in which the entries of a map can be visited.
RECURSIVE Orders(_)
Orders(S) ==
    IF S = {} THEN {<<>>}
    ELSE UNION {{<<x>> \o rest : rest \in Orders(S \ {x})} : x \in S}

TypesIn(t, order) == [k \in 1..Len(order) |-> t.Resources[order[k]]]

\* ----------------------------------------------- ensureCloudFormationStack

TemplateKey == "svc-sha1-cf.json"

\* (mutant) an output that is already in the template is kept
SetOutput_KeepExisting(t, key, value) == [t EXCEPT !.Outputs = @ @@ (key :> value)]

\* ctx.cfTemplate.Outputs[key] = ...: a map store, replacing any entry.
SetOutput(t, key, value) == [t EXCEPT !.Outputs = (key :> value) @@ @]

ExportedValue == "exported"

\* LambdaAWSInfo.export: adds the function's resource to the template; an
\* export may also write outputs, and `collide` is the case that it writes
\* them under the names of the two fixed outputs.
LambdaExport(t, i, collide) ==
    LET r == AddResource(t, LambdaIds[i], LambdaType) IN
    IF collide
    THEN [r EXCEPT !.Outputs = (OutputSpartaHomeKey :> ExportedValue)
                                  @@ (OutputSpartaVersionKey :> ExportedValue) @@ @]
    ELSE r

\* The exports of the first n descriptors, in order.
RECURSIVE ExportLambdas(_, _, _)
ExportLambdas(t, n, collide) ==
    IF n = 0 THEN t ELSE LambdaExport(ExportLambdas(t, n - 1, collide), n, collide)

\* API.export: adds the routing layer's resource and its output.
ApiExport(t) == SetOutput(AddResource(t, "APIGateway", ApiType), "APIGatewayURL", "api-url")

\* safeMergeTemplates(source, dest): dest with the entries of source added.
safeMergeTemplates(source, dest) ==
    [Resources |-> dest.Resources @@ source.Resources,
     Outputs |-> dest.Outputs @@ source.Outputs]

ApiExportError == Err("Failed to export APIGateway template resources")

\* (mutant) the routing layer is exported into the shared template
ApiStage_ExportsIntoShared(shared, hasApi, o) ==
    IF ~hasApi THEN [t |-> shared, err |-> NoErr]
    ELSE IF o = "apiExportFail"
    THEN [t |-> ApiExport(shared), err |-> ApiExportError]
    ELSE IF o = "apiMergeFail"
    THEN [t |-> shared, err |-> ApiExportError]
    ELSE [t |-> ApiExport(shared), err |-> NoErr]

\* The routing layer's part of the step: the export into the scratch template
\* apiGatewayTemplate, then the merge of the scratch template into the shared
\* one; the shared template and the error afterwards.
ApiStage(shared, hasApi, o) ==
    IF ~hasApi THEN [t |-> shared, err |-> NoErr]
    ELSE LET apiGatewayTemplate == ApiExport(NewTemplate) IN
         IF o = "apiExportFail"
         THEN [t |-> shared, err |-> ApiExportError]
         ELSE IF o = "apiMergeFail"
         THEN [t |-> shared, err |-> ApiExportError]
         ELSE [t |-> safeMergeTemplates(apiGatewayTemplate, shared), err |-> NoErr]

\* S3Site.export: adds the site's resource.
SiteExport(t) == AddResource(t, "S3Site", SiteType)

\* (mutant) the error of the site's export is returned
SiteExportError_Returned(siteOk) ==
    IF siteOk THEN NoErr ELSE Err("site export failed")

\* The error the step takes from S3Site.export: its return value is dropped.
SiteExportError(siteOk) == NoErr

\* The two fixed outputs, stored after the exports.
FixedOutputs(t) ==
    SetOutput(SetOutput(t, OutputSpartaHomeKey, SpartaHomeValue),
              OutputSpartaVersionKey, SpartaVersionValue)

FinalOutcomes ==
    {"lambdaExportFail", "apiExportFail", "apiMergeFail", "marshalFail",
     "uploadFail", "ok"}

\* The template is written to the sink whenever one was supplied.
WritesSink(isNoop, hasWriter) == hasWriter

\* (mutant) the template is uploaded in no-op mode too
UploadsTemplate_Always(isNoop) == TRUE

\* Whether the template is uploaded (and the stack converged).
UploadsTemplate(isNoop) == ~isNoop

\* The step up to the call of convergeStackState: the exports, the fixed
\* outputs, the serialisation, the sink, and in live mode the template upload
\* with the registration of its rollback.
FinalSynthesize ==
    /\ pc = "final"
    /\ stepLog' = Append(stepLog, "final")
    /\ \E o \in FinalOutcomes, failAt \in 1..Len(lambdaAWSInfos),
          collide \in BOOLEAN, siteOk \in BOOLEAN :
         /\ o \in {"apiExportFail", "apiMergeFail"} => api
         /\ o = "uploadFail" => UploadsTemplate(noop)
         /\ LET n == IF o = "lambdaExportFail" THEN failAt - 1 ELSE Len(lambdaAWSInfos)
                afterLambdas == ExportLambdas(cfTemplate, n, collide)
                apiStage == ApiStage(afterLambdas, api, o)
                afterApi == apiStage.t
                siteErr == IF site THEN SiteExportError(siteOk) ELSE NoErr
                afterSite == IF site /\ siteOk THEN SiteExport(afterApi) ELSE afterApi
                complete == FixedOutputs(afterSite)
            IN IF o = "lambdaExportFail"
               THEN /\ cfTemplate' = afterLambdas
                    /\ synth' = "lambdaExportFailed"
                    /\ StepReturn(NilStep, Err("lambda export failed"))
                    /\ UNCHANGED <<sinkWritten, templateKey, issued, bucket,
                                   rollbackFunctions>>
               ELSE IF apiStage.err # NoErr
               THEN /\ cfTemplate' = afterApi
                    /\ synth' = IF o = "apiExportFail" THEN "apiExportFailed"
                                ELSE "apiMergeFailed"
                    /\ StepReturn(NilStep, apiStage.err)
                    /\ UNCHANGED <<sinkWritten, templateKey, issued, bucket,
                                   rollbackFunctions>>
               ELSE IF siteErr # NoErr
               THEN /\ cfTemplate' = afterSite
                    /\ synth' = "siteExportFailed"
                    /\ StepReturn(NilStep, siteErr)
                    /\ UNCHANGED <<sinkWritten, templateKey, issued, bucket,
                                   rollbackFunctions>>
               ELSE IF o = "marshalFail"
               THEN /\ cfTemplate' = complete
                    /\ synth' = "complete"
                    /\ StepReturn(NilStep, Err("json.Marshal failed"))
                    /\ UNCHANGED <<sinkWritten, templateKey, issued, bucket,
                                   rollbackFunctions>>
               ELSE /\ cfTemplate' = complete
                    /\ synth' = "complete"
                    /\ templateKey' = TemplateKey
                    /\ sinkWritten' = WritesSink(noop, templateWriter)
                    /\ IF ~UploadsTemplate(noop)
                       THEN /\ StepReturn(FinalNext, NoErr)
                            /\ UNCHANGED <<issued, bucket, rollbackFunctions>>
                       ELSE /\ issued' = issued \cup {"Upload"}
                            /\ IF o = "uploadFail"
                               THEN /\ StepReturn(NilStep, Err("template upload failed"))
                                    /\ UNCHANGED <<bucket, rollbackFunctions>>
                               ELSE /\ bucket' = bucket \cup {TemplateKey}
                                    /\ rollbackFunctions' =
                                         registerRollback(rollbackFunctions,
                                            createS3RollbackFunc(TemplateKey, noop))
                                    /\ Continue("stackExists")
    /\ UNCHANGED <<inputVars, lambdaIAMRoleNameMap, s3LambdaZipKey,
                   s3SiteLambdaZipKey, roleVars, fileVars, uploadVars, deleted, rbVars,
                   describeAnswer, exists, capabilities, stackReq, sleepDuration,
                   lastStatus, convOutcome, eventsAnswer, remoteStatus>>

\* ------------------------------------------------------ convergeStackState

DescribeAnswers == {"found", "does not exist", "error"}

\* stackExists(ctx.serviceName, ...) and the return on its error.
ConvStackExists ==
    /\ pc = "stackExists"
    /\ issued' = issued \cup {"DescribeStacks"}
    /\ \E answer \in DescribeAnswers :
         LET r == stackExists(answer) IN
         /\ describeAnswer' = answer
         /\ IF r.err # NoErr
            THEN StepReturn(NilStep, r.err) /\ UNCHANGED exists
            ELSE exists' = r.exists /\ Continue("stackRequest")
    /\ UNCHANGED <<inputVars, ctxVars, stepLog, roleVars, fileVars, uploadVars,
                   bucket, deleted, rbVars, synth, sinkWritten, templateKey,
                   capabilities, stackReq, sleepDuration, lastStatus, convOutcome,
                   eventsAnswer, remoteStatus>>

\* The request: UpdateStack if the stack exists, CreateStack otherwise, with
\* the capabilities of the template.
StackRequest(stackFound) == IF stackFound THEN "UpdateStack" ELSE "CreateStack"

ConvRequest ==
    /\ pc = "stackRequest"
    /\ \E order \in Orders(DOMAIN cfTemplate.Resources) :
         capabilities' = stackCapabilities(TypesIn(cfTemplate, order))
    /\ issued' = issued \cup {StackRequest(exists)}
    /\ stackReq' = Append(stackReq, StackRequest(exists))
    /\ \E ok \in BOOLEAN :
         IF ok THEN Continue("poll")
         ELSE StepReturn(NilStep, Err("stack request failed"))
    /\ UNCHANGED <<inputVars, ctxVars, stepLog, roleVars, fileVars, uploadVars,
                   bucket, deleted, rbVars, synth, sinkWritten, templateKey,
                   describeAnswer, exists, sleepDuration, lastStatus, convOutcome,
                   eventsAnswer, remoteStatus>>

PollAnswers == {"error", "empty"} \cup StackStatuses

\* rand.Int31n(n): a non-negative integer below n.
Int31n(n) == 0 .. (n - 1)

\* (mutant) the draw is two seconds wider
SleepSeconds_Wider == {11 + r : r \in Int31n(15)}

\* The lengths, in seconds, of the sleep of an iteration of the poll loop.
SleepSeconds == {11 + r : r \in Int31n(13)}

\* The head of an iteration of the poll loop: sleepDuration is drawn and
\* slept before the describe. The variable is local to the iteration.
ConvSleep ==
    /\ pc = "poll"
    /\ sleepDuration' \in SleepSeconds
    /\ Continue("describe")
    /\ UNCHANGED <<inputVars, ctxVars, stepLog, roleVars, fileVars, uploadVars,
                   remoteVars, rbVars, synth, sinkWritten, templateKey,
                   describeAnswer, exists, capabilities, stackReq, lastStatus,
                   convOutcome, eventsAnswer, remoteStatus>>

\* The rest of the iteration for an answer of DescribeStacks: the switch on
\* the status; on a terminal success the step returns (nil, nil).
Poll(answer) ==
    /\ pc = "describe"
    /\ issued' = issued \cup {"DescribeStacks"}
    /\ sleepDuration' = 0
    /\ lastStatus' = answer
    /\ IF answer = "error"
       THEN /\ StepReturn(NilStep, Err("DescribeStacks failed"))
            /\ UNCHANGED convOutcome
       ELSE IF answer = "empty"
       THEN /\ StepReturn(NilStep, Err("Failed to enumerate stack info"))
            /\ UNCHANGED convOutcome
       ELSE LET class == StackStatusClass(answer) IN
            IF class = "success"
            THEN /\ convOutcome' = "succeeded"
                 /\ StepReturn(FinalNext, NoErr)
            ELSE IF class = "failure"
            THEN /\ convOutcome' = "failed"
                 /\ Continue("events")
            ELSE /\ UNCHANGED convOutcome
                 /\ Continue("poll")
    /\ UNCHANGED <<inputVars, ctxVars, stepLog, roleVars, fileVars, uploadVars,
                   bucket, deleted, rbVars, synth, sinkWritten, templateKey,
                   describeAnswer, exists, capabilities, stackReq, eventsAnswer,
                   remoteStatus>>

\* The remote service may answer the describe with an error, with no stack,
\* or with any status.
ConvPoll == \E answer \in PollAnswers : Poll(answer)

EventAnswers == {"error", "more", "last"}

\* (mutant) only the first page of the events is fetched
ConvEvents_FirstPageOnly ==
    /\ pc = "events"
    /\ issued' = issued \cup {"DescribeStackEvents"}
    /\ \E answer \in EventAnswers :
         /\ eventsAnswer' = answer
         /\ IF answer = "error"
            THEN StepReturn(NilStep, Err("DescribeStackEvents failed"))
            ELSE StepReturn(NilStep, <<"Failed to provision: ", serviceName>>)
    /\ UNCHANGED <<inputVars, ctxVars, stepLog, roleVars, fileVars, uploadVars,
                   bucket, deleted, rbVars, synth, sinkWritten, templateKey,
                   describeAnswer, exists, capabilities, stackReq, sleepDuration,
                   lastStatus, convOutcome, remoteStatus>>

\* stackEvents page by page (a page with a NextToken is followed by another
\* call), then the error naming the service.
ConvEvents ==
    /\ pc = "events"
    /\ issued' = issued \cup {"DescribeStackEvents"}
    /\ \E answer \in EventAnswers :
         /\ eventsAnswer' = answer
         /\ IF answer = "error"
            THEN StepReturn(NilStep, Err("DescribeStackEvents failed"))
            ELSE IF answer = "more"
            THEN Continue("events")
            ELSE StepReturn(NilStep, <<"Failed to provision: ", serviceName>>)
    /\ UNCHANGED <<inputVars, ctxVars, stepLog, roleVars, fileVars, uploadVars,
                   bucket, deleted, rbVars, synth, sinkWritten, templateKey,
                   describeAnswer, exists, capabilities, stackReq, sleepDuration,
                   lastStatus, convOutcome, remoteStatus>>

\* ------------------------------------------------------- the remote stack

\* The statuses a stack can move to by itself at the remote service: after a
\* create request (with the on-failure policy DELETE) and after an update
\* request. A status without a successor is left only by a new operation.
RemoteTransitions(status) ==
    CASE status = "CREATE_IN_PROGRESS" -> {"CREATE_COMPLETE", "CREATE_FAILED"}
      [] status = "CREATE_FAILED" -> {"DELETE_IN_PROGRESS"}
      [] status = "DELETE_IN_PROGRESS" -> {"DELETE_COMPLETE", "DELETE_FAILED"}
      [] status = "UPDATE_IN_PROGRESS" ->
            {"UPDATE_COMPLETE_CLEANUP_IN_PROGRESS", "UPDATE_ROLLBACK_IN_PROGRESS"}
      [] status = "UPDATE_COMPLETE_CLEANUP_IN_PROGRESS" -> {"UPDATE_COMPLETE"}
      [] status = "UPDATE_ROLLBACK_IN_PROGRESS" ->
            {"UPDATE_ROLLBACK_FAILED", "UPDATE_ROLLBACK_COMPLETE_CLEANUP_IN_PROGRESS"}
      [] status = "UPDATE_ROLLBACK_COMPLETE_CLEANUP_IN_PROGRESS" ->
            {"UPDATE_ROLLBACK_COMPLETE"}
      [] OTHER -> {}

\* The status in which the remote service puts the stack for an accepted request.
RemoteAccepted(request) ==
    IF request = "CreateStack" THEN "CREATE_IN_PROGRESS" ELSE "UPDATE_IN_PROGRESS"

\* No further transition occurs without a new operation.
RemoteTerminal(status) == status # "none" /\ RemoteTransitions(status) = {}

\* A step of the remote service on the stack of an accepted request.
RemoteStep ==
    /\ IF remoteStatus = "none"
       THEN /\ pc \in {"poll", "describe"}
            /\ remoteStatus' = RemoteAccepted(stackReq[1])
       ELSE remoteStatus' \in RemoteTransitions(remoteStatus)
    /\ UNCHANGED <<inputVars, ctxVars, loopVars, stepLog, roleVars, fileVars,
                   uploadVars, remoteVars, rbVars, synth, sinkWritten, templateKey,
                   describeAnswer, exists, capabilities, stackReq, sleepDuration,
                   lastStatus, convOutcome, eventsAnswer>>

\* An iteration of the poll loop whose DescribeStacks succeeds: the answer is
\* the status the stack has.
LivePoll == remoteStatus # "none" /\ Poll(remoteStatus)

\* ------------------------------------------------------------ specification

Next ==
    \/ ProvisionStart
    \/ VerifyEnter
    \/ VerifyEach
    \/ VerifyReturn
    \/ PackageStep
    \/ UploadEnter
    \/ SiteBuild
    \/ \E u \in Units : UnitUpload(u)
    \/ \E u \in Units : UnitRead(u)
    \/ \E u \in Units : UnitWrite(u)
    \/ UploadJoin
    \/ FinalSynthesize
    \/ ConvStackExists
    \/ ConvRequest
    \/ ConvSleep
    \/ ConvPoll
    \/ ConvEvents
    \/ \E i \in rbPending : RollbackRun(i)
    \/ RollbackJoin

Spec == Init /\ [][Next]_vars

\* The live run against a remote stack that follows its lifecycle and whose
\* status checks succeed. The program's steps are taken as long as one is
\* possible (a goroutine that can run does run), and the remote service
\* keeps working on the stack.
LiveInit == Init /\ ~noop

LiveProgram ==
    \/ ProvisionStart
    \/ VerifyEnter
    \/ VerifyEach
    \/ VerifyReturn
    \/ PackageStep
    \/ UploadEnter
    \/ SiteBuild
    \/ \E u \in Units : UnitUpload(u)
    \/ \E u \in Units : UnitRead(u)
    \/ \E u \in Units : UnitWrite(u)
    \/ UploadJoin
    \/ FinalSynthesize
    \/ ConvStackExists
    \/ ConvRequest
    \/ ConvSleep
    \/ LivePoll
    \/ ConvEvents
    \/ \E i \in rbPending : RollbackRun(i)
    \/ RollbackJoin

LiveNext == LiveProgram \/ RemoteStep

LiveSpec ==
    /\ LiveInit
    /\ [][LiveNext]_vars
    /\ WF_vars(LiveProgram)
    /\ WF_vars(RemoteStep)

\* ------------------------------------------------------------------ claims

Range(f) == {f[x] : x \in DOMAIN f}

StepOrder == <<"verify", "package", "upload", "final">>

IsPrefix(a, b) == Len(a) <= Len(b) /\ a = SubSeq(b, 1, Len(a))

\* msg occurs in text as a run of consecutive fragments.
Contains(text, msg) ==
    \E i \in 1..(Len(text) - Len(msg) + 1) : SubSeq(text, i, i + Len(msg) - 1) = msg

EmptyListError == Err("No lambda functions provided to Sparta.Provision()")

\* C1: with an empty descriptor list Provision returns the error without any
\* step, rollback, remote call or local file.
C1_EmptyListNoEffect ==
    Len(lambdaAWSInfos) = 0 =>
        /\ pc \in {"start", "done"}
        /\ pc = "done" => result = EmptyListError
        /\ stepLog = <<>>
        /\ rollbackCount = 0 /\ rbExecuted = {}
        /\ issued = {} /\ bucket = {} /\ deleted = {}
        /\ localFiles = {}

C1_Witness == Len(lambdaAWSInfos) = 0 /\ pc = "done" /\ result = EmptyListError

\* C2: once a step has returned an error, rollback() has been invoked exactly
\* once, no further step is invoked, and Provision returns that error.
C2_ErrorRollsBackOnceAndStops ==
    /\ [](/\ stepErr # NoErr => rollbackCount = 1 /\ pc \in {"rollback", "done"}
          /\ stepErr = NoErr => rollbackCount = 0
          /\ (pc = "done" /\ stepErr # NoErr) => result = stepErr)
    /\ [][stepErr # NoErr => stepLog' = stepLog /\ stepErr' = stepErr]_vars

C2_Witness ==
    /\ pc = "done" /\ stepErr # NoErr /\ result = stepErr
    /\ rollbackCount = 1 /\ Len(stepLog) = 4

\* C3: the steps are invoked in the order verify, package, upload, final, each
\* at most once and only after the one before has ended (its goroutines
\* joined), and a successful return follows all four.
C3_StepsInOrder ==
    /\ IsPrefix(stepLog, StepOrder)
    /\ Len(stepLog) = 4 => \A u \in Units : upc[u] = "joined"
    /\ Len(stepLog) < 3 => \A u \in Units : upc[u] = "idle"
    /\ (pc = "done" /\ result = NoErr) => stepLog = StepOrder /\ stepErr = NoErr

C3_Witness == pc = "done" /\ result = NoErr /\ stepLog = StepOrder

\* C4: in a run that returns nil no rollback function has been executed.
C4_NoRollbackOnSuccess ==
    (pc = "done" /\ result = NoErr) =>
        /\ rollbackCount = 0
        /\ rbExecuted = {}
        /\ "DeleteObject" \notin issued

C4_Witness ==
    /\ pc = "done" /\ result = NoErr
    /\ ~noop /\ site /\ Len(rollbackFunctions) = 3

\* The upload step has returned and the final step has not yet run.
UploadReturned == Len(stepLog) = 3 /\ \A u \in Units : upc[u] = "joined"

\* The unit ran and its upload returned no error.
UnitSucceeded(u) == (u = "primary" \/ site) /\ uerr[u] = NoErr
UnitFailed(u) == uerr[u] # NoErr

\* C5: after the join the rollback list is as long as the number of units
\* whose upload succeeded.
C5_RollbackPerSucceededUpload ==
    UploadReturned =>
        Len(rollbackFunctions) = Cardinality({u \in Units : UnitSucceeded(u)})

\* C6: the error of the upload step contains the message of every failed unit.
C6_AggregateHasEveryMessage ==
    (UploadReturned /\ \E u \in Units : UnitFailed(u)) =>
        /\ stepErr # NoErr
        /\ \A u \in Units : UnitFailed(u) => Contains(stepErr, uerr[u])

NoopForbiddenCalls ==
    {"Upload", "CreateStack", "UpdateStack", "DescribeStacks", "DeleteObject",
     "GetBucketLifecycleConfiguration", "DescribeStackEvents"}

\* The template holds every function's resource and the two fixed outputs.
TemplateComplete ==
    /\ synth = "complete"
    /\ \A i \in 1..Len(lambdaAWSInfos) : LambdaIds[i] \in DOMAIN cfTemplate.Resources
    /\ {OutputSpartaHomeKey, OutputSpartaVersionKey} \subseteq DOMAIN cfTemplate.Outputs

\* C7: in no-op mode no upload, stack request, describe-stack or delete-object
\* call is issued in any state of the run, and a final step that ends without
\* error has synthesized the whole template and written it to a supplied sink.
C7_NoopNoRemoteMutation ==
    noop =>
        /\ issued \cap NoopForbiddenCalls = {}
        /\ bucket = {} /\ deleted = {} /\ stackReq = <<>>
        /\ (pc = "done" /\ result = NoErr) =>
              TemplateComplete /\ (templateWriter => sinkWritten)

C7_Witness ==
    /\ noop /\ pc = "done" /\ result = NoErr
    /\ templateWriter /\ sinkWritten /\ TemplateComplete
    /\ Len(rollbackFunctions) = 2

SuccessStatuses == {"CREATE_COMPLETE", "UPDATE_COMPLETE"}
FailureStatuses ==
    {"CREATE_FAILED", "DELETE_FAILED", "ROLLBACK_FAILED", "ROLLBACK_COMPLETE",
     "DELETE_COMPLETE"}

\* C8: a polled success status ends polling with success, a polled failure
\* status ends it with failure, any other status leaves the loop polling.
C8_StatusClassification ==
    /\ lastStatus \in SuccessStatuses =>
          convOutcome = "succeeded" /\ pc = "done" /\ result = NoErr
    /\ lastStatus \in FailureStatuses =>
          /\ convOutcome = "failed"
          /\ pc \in {"events", "rollback", "done"}
          /\ pc = "done" => result # NoErr
    /\ lastStatus \in StackStatuses \ (SuccessStatuses \cup FailureStatuses) =>
          convOutcome = "none" /\ pc \in {"poll", "describe"}

C8_Witness ==
    lastStatus = "DELETE_COMPLETE" /\ convOutcome = "failed" /\ pc = "events"

RoleResources(t) == {id \in DOMAIN t.Resources : t.Resources[id] = RoleType}

\* C9: the capabilities of a request are empty for a template without role
\* resources and exactly one CAPABILITY_IAM otherwise, in every visiting order.
C9_Capabilities ==
    stackReq # <<>> =>
        IF RoleResources(cfTemplate) = {}
        THEN capabilities = <<>>
        ELSE capabilities = <<CapabilityIAM>>

C9_Witness ==
    /\ stackReq # <<>>
    /\ Cardinality(RoleResources(cfTemplate)) = 2
    /\ capabilities = <<CapabilityIAM>>

\* C10: no role name is looked up more than once in a run.
C10_LookupAtMostOnce == \A n \in Names : lookups[n] <= 1

C10_Witness ==
    /\ Len(lambdaAWSInfos) >= 2
    /\ lambdaAWSInfos[1] = [RoleName |-> "r1", RoleDefinition |-> NilDef]
    /\ lambdaAWSInfos[2] = lambdaAWSInfos[1]
    /\ idx >= 3
    /\ lookups["r1"] = 1

\* Role verification has returned the package step.
VerifySucceeded == pc = "package" \/ Len(stepLog) >= 2

\* The logical ids of the descriptors that declare a new role definition.
DefinedLogicalIds ==
    {lambdaAWSInfos[i].RoleDefinition :
        i \in {j \in 1..Len(lambdaAWSInfos) : lambdaAWSInfos[j].RoleDefinition # NilDef}}

\* C11: after role verification has succeeded the role resources of the
\* template are the distinct logical ids of the declared role definitions, one
\* resource each, and the role map holds for each the reference to its resource.
C11_OneRoleResourcePerLogicalId ==
    VerifySucceeded =>
        /\ RoleResources(cfTemplate) = DefinedLogicalIds
        /\ \A id \in DefinedLogicalIds :
              /\ id \in DOMAIN lambdaIAMRoleNameMap
              /\ lambdaIAMRoleNameMap[id] = GetAttArn(id)

\* Some descriptor of the list sets both RoleName and RoleDefinition.
HasConflict ==
    \E i \in 1..Len(lambdaAWSInfos) :
        lambdaAWSInfos[i].RoleName # "" /\ lambdaAWSInfos[i].RoleDefinition # NilDef

ConflictError == Err("Both RoleName and RoleDefinition defined for lambda")

\* C12: with a conflicting descriptor anywhere in the list no role is looked
\* up and no role resource is added in any state of the run, the run does not
\* get past role verification, and it ends with the configuration error.
C12_ConflictNoPartialEffect ==
    HasConflict =>
        /\ \A n \in Names : lookups[n] = 0
        /\ "GetRole" \notin issued
        /\ RoleResources(cfTemplate) = {}
        /\ pc \in {"start", "verify", "rollback", "done"}
        /\ pc = "done" => result = ConflictError

\* C13: while rollback() runs every registered compensation is either still
\* pending or has finished, in any order; Provision returns only with all of
\* them finished, and with the error of the failing step whether or not a
\* compensation failed.
C13_RollbackJoinedBestEffort ==
    /\ pc = "rollback" =>
          /\ rbPending \cup rbExecuted = 1..Len(rollbackFunctions)
          /\ rbPending \cap rbExecuted = {}
          /\ result = Running
    /\ (pc = "done" /\ rollbackCount = 1) =>
          /\ rbPending = {}
          /\ rbExecuted = 1..Len(rollbackFunctions)
          /\ rbFailed \subseteq rbExecuted
          /\ stepErr # NoErr /\ result = stepErr

C13_Witness ==
    /\ pc = "done" /\ rollbackCount = 1
    /\ Cardinality(rbExecuted) = 3 /\ rbFailed # {}
    /\ result = stepErr

\* Compensations can finish in any order: the second before the first.
C13_WitnessAnyOrder == pc = "rollback" /\ rbExecuted = {2} /\ rbPending = {1}

\* The unit's goroutine has been started and has not finished.
UnitActive(u) == upc[u] \in {"build", "upload", "regRead", "regWrite"}

\* A step of the unit's goroutine.
UnitStep(u) ==
    \/ u = "site" /\ SiteBuild
    \/ UnitUpload(u)
    \/ UnitRead(u)
    \/ UnitWrite(u)

\* The step of createUploadStep's return (wg.Wait() is over).
UploadReturns == pc = "upload" /\ pc' # "upload"

\* C14: inside the upload step the primary unit has been started, the site
\* unit has been started iff a site is defined, and a started unit that has
\* not finished can always take its next step, whatever the other unit did;
\* the step returns only with every started unit finished, and the final step
\* starts only after that return.
C14_UnitsRunAndAreJoined ==
    /\ []((pc = "upload" /\ upc["primary"] # "idle") =>
            /\ upc["primary"] \in {"upload", "regRead", "regWrite", "done"}
            /\ upc["site"] = "absent" <=> ~site
            /\ upc["site"] \in {"absent", "build", "upload", "regRead", "regWrite", "done"}
            /\ \A u \in Units : UnitActive(u) => ENABLED UnitStep(u))
    /\ [](pc = "final" => \A u \in Units : upc[u] = "joined")
    /\ [][UploadReturns =>
            /\ upc["primary"] = "done"
            /\ upc["site"] = IF site THEN "done" ELSE "absent"]_vars

\* The primary unit failed and the site unit still uploaded its archive.
C14_Witness ==
    /\ UploadReturned /\ site
    /\ UnitFailed("primary")
    /\ uerr["site"] = NoErr /\ ukey["site"] = Base(SiteTmpFile)
    /\ ~noop /\ Base(SiteTmpFile) \in bucket

\* The run has ended with an error in live mode.
LiveAbort == ~noop /\ pc = "done" /\ stepErr # NoErr

\* C15: when a live run has aborted, every uploaded object has had a delete
\* attempted: an object still in the bucket is among the keys rollback()
\* issued a DeleteObject for.
C15_RollbackDeletesEveryUpload ==
    LiveAbort => bucket \subseteq deleted

\* The run is inside the poll loop of convergeStackState.
Polling == pc \in {"poll", "describe"}

\* C16: once the remote stack is in a status that no transition leaves, a run
\* inside the poll loop eventually leaves the loop.
C16_PollLoopTerminates == (Polling /\ RemoteTerminal(remoteStatus)) ~> ~Polling

MutatingRequests == {"CreateStack", "UpdateStack"}

\* C17: a run issues at most one create or update request and none in no-op
\* mode; the request is an update after a describe that found the stack and a
\* create after a describe that failed with non-existence; after any other
\* describe error the run aborts without a request; and convergence is past
\* the request with exactly one issued.
C17_OneMutatingRequest ==
    /\ Len(stackReq) <= 1
    /\ Range(stackReq) = issued \cap MutatingRequests
    /\ noop => stackReq = <<>>
    /\ stackReq # <<>> =>
          \/ describeAnswer = "found" /\ stackReq = <<"UpdateStack">>
          \/ describeAnswer = "does not exist" /\ stackReq = <<"CreateStack">>
    /\ describeAnswer = "error" =>
          /\ stackReq = <<>>
          /\ pc \in {"rollback", "done"}
          /\ stepErr = Err("DescribeStacks failed")
    /\ (pc \in {"poll", "describe", "events"} \/ convOutcome # "none") =>
          Len(stackReq) = 1

C17_Witness ==
    /\ pc = "done" /\ result = NoErr /\ ~noop
    /\ describeAnswer = "does not exist" /\ stackReq = <<"CreateStack">>

\* The other describe error: the run has aborted without a request.
C17_WitnessAbort ==
    /\ pc = "done" /\ describeAnswer = "error" /\ stackReq = <<>>
    /\ result = Err("DescribeStacks failed")

FailedToProvision == <<"Failed to provision: ", serviceName>>
EventsError == Err("DescribeStackEvents failed")

\* C18 (as claimed): a run whose polling ended on a terminal-failure status
\* returns the error naming the service.
C18_TerminalFailureReturnsServiceError ==
    (convOutcome = "failed" /\ pc = "done") => result = FailedToProvision

\* C18 (amended): after a terminal-failure status the events are fetched as
\* long as the last page had a continuation token; the run then aborts with
\* the error naming the service if the last page was fetched, and with the
\* error of the fetch if a fetch failed.
C18_TerminalFailureFetchesEventsThenAborts ==
    /\ convOutcome = "failed" =>
          /\ pc \in {"events", "rollback", "done"}
          /\ pc = "events" => eventsAnswer \in {"none", "more"}
          /\ pc # "events" =>
                \/ eventsAnswer = "last" /\ stepErr = FailedToProvision
                \/ eventsAnswer = "error" /\ stepErr = EventsError
          /\ pc = "done" => result = stepErr
    /\ convOutcome # "failed" => eventsAnswer = "none" /\ stepErr # FailedToProvision

\* The last page of the events was fetched and the run has ended.
C18_Witness ==
    /\ convOutcome = "failed" /\ pc = "done"
    /\ eventsAnswer = "last" /\ result = FailedToProvision

\* The compensation that deletes the uploaded template object.
TemplateRollback == createS3RollbackFunc(TemplateKey, FALSE)

TemplateRegistered == TemplateRollback \in Range(rollbackFunctions)

\* Convergence (convergeStackState) is under way.
Converging == pc \in {"stackExists", "stackRequest", "poll", "describe", "events"}

\* The final step has returned an error from convergeStackState.
ConvergenceFailed ==
    /\ pc \in {"rollback", "done"} /\ stepErr # NoErr
    /\ "DescribeStacks" \in issued

\* C19 (as claimed): the template object is among the registered
\* compensations only once the stack has reached a terminal-success status.
C19_TemplateRegisteredOnlyAfterSuccess ==
    TemplateRegistered => convOutcome = "succeeded"

\* C19 (amended): the template object is registered for rollback as soon as
\* its upload has succeeded, before convergence starts: it is registered
\* exactly when it has been uploaded, in every state of convergence, and at
\* the moment a convergence failure triggers rollback.
C19_TemplateRegisteredAfterUpload ==
    /\ TemplateRegistered <=> (TemplateKey \in bucket \cup deleted)
    /\ Converging => TemplateRegistered
    /\ ConvergenceFailed =>
          /\ TemplateRegistered
          /\ pc = "done" => TemplateKey \in deleted

\* A convergence failure has triggered rollback and the template object's
\* compensation is registered and still pending.
C19_Witness ==
    /\ pc = "rollback" /\ convOutcome = "failed"
    /\ TemplateRegistered
    /\ \E i \in rbPending : rollbackFunctions[i] = TemplateRollback

\* The local temporary archives of the upload step.
TemporaryArchives == {PackageTmpFile, SiteTmpFile}

\* C20: once the upload step has returned, neither the packaged code archive
\* nor the site archive is left in the local file system.
C20_TemporaryArchivesDeleted ==
    (\A u \in Units : upc[u] = "joined") => localFiles \cap TemporaryArchives = {}

\* The build/package step has returned.
PackageReturned == Len(stepLog) >= 2

\* C21: once the build/package step has returned, the removal of the
\* executable has been attempted and the executable is not in the local file
\* system, whatever the outcome of the step.
C21_ExecutableRemovedOnEveryExit ==
    PackageReturned =>
        /\ exeRemoveAttempted
        /\ ExecutableOutput \notin localFiles

LifecycleLookup == "GetBucketLifecycleConfiguration"

PolicyError == <<"Failed to ensure bucket policies: ">>

\* The unit's call of uploadLocalFileToS3 has returned and the unit has not
\* yet stored its error or its rollback function.
UnitUploaded(u) == upc[u] \in {"regRead", "regWrite"} /\ upath[u] # <<>>

\* C22: no lifecycle lookup is made in no-op mode and every unit that uploads
\* in live mode makes one; after the policy-absent answer the unit has no
\* policy error, and if it succeeded its transfer was made and its object is
\* stored; after any other lookup error the unit has failed with the policy
\* error, no transfer was attempted, no object is stored, and the unit's
\* store leaves the rollback list as it was.
C22_LifecycleLookup ==
    /\ [](noop => LifecycleLookup \notin issued)
    /\ [](\A u \in Units : UnitUploaded(u) =>
            /\ ~noop <=> LifecycleLookup \in ulookup[u].calls
            /\ noop => ulookup[u] = NoLookup
            /\ ulookup[u].answer = "NoSuchLifecycleConfiguration" =>
                  /\ ~Contains(uerr[u], PolicyError)
                  /\ uerr[u] = NoErr =>
                        /\ "Upload" \in ulookup[u].calls
                        /\ ukey[u] = Base(upath[u]) /\ ukey[u] \in bucket
            /\ ulookup[u].answer = "error" =>
                  /\ Contains(uerr[u], PolicyError)
                  /\ "Upload" \notin ulookup[u].calls
                  /\ ukey[u] = "" /\ Base(upath[u]) \notin bucket)
    /\ [][\A u \in Units :
            (ulookup[u].answer = "error" /\ upc[u] = "regWrite" /\ upc'[u] = "done") =>
                /\ rollbackFunctions' = rollbackFunctions
                /\ uploadErrors' # uploadErrors]_vars

\* The policy is absent and the unit's transfer has stored its object.
C22_Witness ==
    /\ UnitUploaded("site")
    /\ ulookup["site"].answer = "NoSuchLifecycleConfiguration"
    /\ uerr["site"] = NoErr /\ ukey["site"] \in bucket

\* The lookup failed otherwise and the unit has stored its error.
C22_WitnessError ==
    /\ UnitUploaded("primary") /\ ulookup["primary"].answer = "error"
    /\ upc["primary"] = "regWrite"

\* The key under which a descriptor's role is kept in the role map.
RoleKey(info) == IF info.RoleName # "" THEN info.RoleName ELSE info.RoleDefinition

\* The template-synthesis step is about to start.
SynthesisStarts == pc = "final"

\* C23: when the template-synthesis step starts the role map has an entry for
\* the role key of every descriptor, the code key is the non-empty key of the
\* packaged archive, and the template is the one built up since construction:
\* no step ever takes a resource or an output out of it.
C23_ContextReadyForSynthesis ==
    /\ [](SynthesisStarts =>
            /\ \A i \in 1..Len(lambdaAWSInfos) :
                  RoleKey(lambdaAWSInfos[i]) \in DOMAIN lambdaIAMRoleNameMap
            /\ s3LambdaZipKey # "" /\ s3LambdaZipKey = Base(PackageTmpFile)
            /\ RoleResources(cfTemplate) = DOMAIN cfTemplate.Resources)
    /\ [][/\ DOMAIN cfTemplate.Resources \subseteq DOMAIN cfTemplate'.Resources
          /\ DOMAIN cfTemplate.Outputs \subseteq DOMAIN cfTemplate'.Outputs]_vars

C23_Witness ==
    /\ SynthesisStarts /\ Len(lambdaAWSInfos) = 2
    /\ lambdaAWSInfos[1].RoleName = "r1" /\ lambdaAWSInfos[2].RoleDefinition = "r2"
    /\ DOMAIN lambdaIAMRoleNameMap = {"r1", "r2"}
    /\ s3LambdaZipKey = Base(PackageTmpFile)
    /\ RoleResources(cfTemplate) = {"r2"}

\* The upload step has not started.
BeforeUpload == "upload" \notin Range(stepLog)

\* C24: in every state before the upload step starts the rollback list is
\* empty; a run that aborts in role verification or in the build/package step
\* starts rollback() with nothing to run, executes no compensation and
\* issues no delete.
C24_NoRollbackBeforeUpload ==
    BeforeUpload =>
        /\ rollbackFunctions = <<>>
        /\ rbPending = {} /\ rbExecuted = {}
        /\ "DeleteObject" \notin issued /\ deleted = {}
        /\ stepErr # NoErr => rollbackCount = 1 /\ pc \in {"rollback", "done"}

\* The run has aborted in the build/package step after a role lookup.
C24_Witness ==
    /\ BeforeUpload /\ pc = "done" /\ Len(stepLog) = 2
    /\ stepErr # NoErr /\ result = stepErr
    /\ rollbackCount = 1 /\ "GetRole" \in issued

\* The run has aborted in role verification.
C24_WitnessVerify ==
    /\ BeforeUpload /\ pc = "done" /\ Len(stepLog) = 1
    /\ result \in {ConflictError, Err("GetRole failed")}

\* What the routing layer's export produces.
ApiResources == {"APIGateway"}
ApiOutputs == {"APIGatewayURL"}

\* No template document was uploaded and no stack request issued.
NothingPublished ==
    /\ templateKey = "" /\ ~sinkWritten
    /\ TemplateKey \notin bucket \cup deleted
    /\ stackReq = <<>> /\ issued \cap MutatingRequests = {}

\* C25: a failed export of the routing layer leaves nothing of it in the
\* shared template; a failed export and a failed merge both abort the run
\* with the export error, without template upload or stack request; a
\* completed synthesis holds the routing layer's entries iff one was given.
C25_RoutingLayerScratchTemplate ==
    /\ synth = "apiExportFailed" =>
          /\ DOMAIN cfTemplate.Resources \cap ApiResources = {}
          /\ DOMAIN cfTemplate.Outputs \cap ApiOutputs = {}
    /\ synth \in {"apiExportFailed", "apiMergeFailed"} =>
          /\ api
          /\ stepErr = ApiExportError
          /\ pc \in {"rollback", "done"}
          /\ pc = "done" => result = ApiExportError
          /\ NothingPublished
    /\ synth = "complete" =>
          /\ api <=> ApiResources \subseteq DOMAIN cfTemplate.Resources
          /\ api <=> ApiOutputs \subseteq DOMAIN cfTemplate.Outputs
    /\ ~api => /\ DOMAIN cfTemplate.Resources \cap ApiResources = {}
               /\ DOMAIN cfTemplate.Outputs \cap ApiOutputs = {}

C25_Witness ==
    /\ synth = "apiExportFailed" /\ pc = "done" /\ result = ApiExportError
    /\ ~noop /\ Len(lambdaAWSInfos) = 2
    /\ {LambdaIds[1], LambdaIds[2]} \subseteq DOMAIN cfTemplate.Resources

C25_WitnessMerge == synth = "apiMergeFailed" /\ pc = "done" /\ NothingPublished

\* C26: a completed synthesis has the two fixed outputs with their fixed
\* values, in both run modes, also when an export wrote outputs of the same
\* names.
C26_FixedOutputsPresent ==
    synth = "complete" =>
        /\ OutputSpartaHomeKey \in DOMAIN cfTemplate.Outputs
        /\ OutputSpartaVersionKey \in DOMAIN cfTemplate.Outputs
        /\ cfTemplate.Outputs[OutputSpartaHomeKey] = SpartaHomeValue
        /\ cfTemplate.Outputs[OutputSpartaVersionKey] = SpartaVersionValue

\* An export has written outputs under the fixed names: such a template is
\* what a failed later export leaves behind.
ExportCollides ==
    /\ synth = "apiExportFailed"
    /\ OutputSpartaHomeKey \in DOMAIN cfTemplate.Outputs
    /\ cfTemplate.Outputs[OutputSpartaHomeKey] = ExportedValue

C26_Witness ==
    /\ synth = "complete" /\ noop /\ api /\ site
    /\ pc = "done" /\ result = NoErr
    /\ cfTemplate.Outputs[OutputSpartaHomeKey] = SpartaHomeValue
    /\ cfTemplate.Outputs[OutputSpartaVersionKey] = SpartaVersionValue
    /\ "APIGatewayURL" \in DOMAIN cfTemplate.Outputs

\* ------------------------------------------------------------------- C27

\* C27: every status check of the poll loop, the first one included, comes
\* after a sleep of a whole number of seconds from 11 to 24, drawn in the
\* iteration of that check: a check is about to be made exactly when a
\* duration has been drawn, and the duration is not kept for the next one.
C27_SleepBeforeEveryStatusCheck ==
    /\ pc = "describe" => sleepDuration \in 11 .. 24
    /\ pc # "describe" => sleepDuration = 0

\* The longest sleep the draw yields, before a status check that follows a
\* status that keeps the loop running.
C27_Witness ==
    /\ pc = "describe" /\ sleepDuration = 23
    /\ lastStatus \in StackStatuses /\ StackStatusClass(lastStatus) = "continue"

\* The shortest sleep, before the first status check.
C27_WitnessFirst ==
    pc = "describe" /\ sleepDuration = 11 /\ lastStatus = "none"

\* ------------------------------------------------------------------- C28

\* The final step ran past the function and routing-layer exports, with a
\* site to export.
SiteExported ==
    site /\ synth \notin {"none", "lambdaExportFailed", "apiExportFailed",
                          "apiMergeFailed"}

\* The site's export failed: it left no site resource in the template.
SiteExportFailed == SiteExported /\ "S3Site" \notin DOMAIN cfTemplate.Resources

SerializeOrUploadError ==
    {Err("json.Marshal failed"), Err("template upload failed")}

\* C28: once the site's export has run, failed or not, the template has the
\* fixed outputs and, unless the serialisation failed, its key; a live run
\* whose serialisation and upload succeeded has the template uploaded and
\* has entered the convergence. A failure of a function's or of the routing
\* layer's export ends the step with an error before any of this.
C28_SiteExportFailureNeverAborts ==
    /\ SiteExported =>
          /\ synth = "complete"
          /\ cfTemplate = FixedOutputs(cfTemplate)
          /\ stepErr # Err("json.Marshal failed") => templateKey = TemplateKey
          /\ (~noop /\ stepErr \notin SerializeOrUploadError) =>
                /\ TemplateKey \in bucket \cup deleted
                /\ pc = "stackExists" \/ "DescribeStacks" \in issued
          /\ (noop /\ stepErr = NoErr) => pc = "done" /\ result = NoErr
    /\ synth \in {"lambdaExportFailed", "apiExportFailed", "apiMergeFailed"} =>
          /\ stepErr # NoErr
          /\ templateKey = ""
          /\ OutputSpartaVersionKey \notin DOMAIN cfTemplate.Outputs
             \/ cfTemplate.Outputs[OutputSpartaVersionKey] # SpartaVersionValue
          /\ TemplateKey \notin bucket \cup deleted
          /\ stackReq = <<>>

\* A live run whose site export failed and which converged.
C28_Witness ==
    /\ SiteExportFailed /\ ~noop
    /\ stackReq # <<>> /\ convOutcome = "succeeded"
    /\ pc = "done" /\ result = NoErr

\* A no-op run whose site export failed and which ended without error.
C28_WitnessNoop ==
    SiteExportFailed /\ noop /\ templateKey = TemplateKey /\ pc = "done" /\ result = NoErr

\* ------------------------------------------------------------------- C29

\* A create or update request was accepted by the remote service.
RequestAccepted == stackReq # <<>> /\ stepErr # Err("stack request failed")

\* The last status check of the poll loop saw the stack in a status that
\* ends the loop.
TerminalStatusObserved ==
    /\ lastStatus \in StackStatuses
    /\ StackStatusClass(lastStatus) \in {"success", "failure"}

\* C29: artifacts uploaded by the run are deleted only if no create or
\* update request was accepted or the stack has been observed in a terminal
\* status; a failed status check of the poll loop leads to no deletion.
C29_NoDeletionWhileStackOperationRuns ==
    deleted # {} => ~RequestAccepted \/ TerminalStatusObserved

\* ------------------------------------------------------------------- C30

\* C30: after role verification has succeeded, the role map gives every
\* descriptor with a role definition the reference to the role resource the
\* template has under the definition's logical id, and every descriptor with
\* a role name the literal identifier that the lookup of that name returned.
C30_RoleMapEntriesByDescriptorKind ==
    VerifySucceeded =>
        \A i \in 1..Len(lambdaAWSInfos) :
            LET d == lambdaAWSInfos[i] IN
            IF d.RoleName # ""
            THEN /\ d.RoleName \in DOMAIN lambdaIAMRoleNameMap
                 /\ lambdaIAMRoleNameMap[d.RoleName] = LiteralArn(d.RoleName)
                 /\ lookups[d.RoleName] = 1
            ELSE /\ d.RoleDefinition \in DOMAIN lambdaIAMRoleNameMap
                 /\ lambdaIAMRoleNameMap[d.RoleDefinition] = GetAttArn(d.RoleDefinition)
                 /\ d.RoleDefinition \in RoleResources(cfTemplate)

\* ------------------------------------------------------------------- C31

\* The role names of the descriptors that name a pre-existing role.
PreExistingRoleNames ==
    {lambdaAWSInfos[i].RoleName :
        i \in {j \in 1..Len(lambdaAWSInfos) : lambdaAWSInfos[j].RoleName # ""}}

\* C31: role verification is the same in both run modes: when it has
\* succeeded in no-op mode, every distinct pre-existing role name has been
\* looked up at the remote service, and in either mode a failed lookup ends
\* the run with that error after the verification step, through rollback.
C31_RunModeDoesNotAffectRoleVerification ==
    /\ (noop /\ VerifySucceeded) =>
          \A name \in PreExistingRoleNames : lookups[name] = 1
    /\ stepErr = Err("GetRole failed") =>
          /\ stepLog = <<"verify">>
          /\ rollbackCount = 1
          /\ pc \in {"rollback", "done"}
          /\ pc = "done" => result = Err("GetRole failed")

====
